---- MODULE Spec2Model ----
(***************************************************************************)
(* TraceCounters (hta/analyzers/trace_counters.py): the queue-length and   *)
(* memory-bandwidth time series of a trace, per rank, and their summaries. *)
(*                                                                         *)
(* A data frame is a sequence of rows (records).  Each public class method *)
(* is one action; a behaviour is one call on a trace.  DataFrame.sort_values*)
(* is called with its default, unstable sort: the order it leaves among    *)
(* rows of equal ts is a nondeterministic choice.                          *)
(***************************************************************************)
EXTENDS Integers, Sequences, FiniteSets, TLC

VARIABLES
  trace,        \* t: rank |-> the rank's event table (t.get_trace(rank))
  pc,           \* "init", or the method that was called
  ranks,        \* the ranks argument after its default was applied
  ql_series,    \* rank |-> queue-length time series
  ql_summary,   \* result of get_queue_length_summary
  bw_series,    \* rank |-> memory-bandwidth time series
  bw_summary    \* result of get_memory_bw_summary

vars == <<trace, pc, ranks, ql_series, ql_summary, bw_series, bw_summary>>

(***************************************************************************)
(* Bounds of the model.                                                    *)
(***************************************************************************)
MaxTs == 1          \* event timestamps are 0..MaxTs
MaxDur == 1         \* memory event durations are 0..MaxDur
MaxBw == 2          \* memory event bandwidths are 1..MaxBw
MaxRank == 1        \* the multi-rank traces have ranks 0..MaxRank
MaxEvents == 2      \* events of a multi-rank trace, all ranks together
MaxQlEvents == 3    \* events of a queue-length trace
MaxBwEvents == 2    \* events of a memory-bandwidth trace

StreamIds == {0, 1}
CorrelationIds == {1, 2}

(***************************************************************************)
(* The external collaborators: the symbol table and the event classifier.  *)
(***************************************************************************)
sym_table ==
  << "cudaLaunchKernel", "cudaMemcpyAsync", "cudaMemsetAsync", "aten::add",
     "gemm_kernel", "Memcpy HtoD (Pinned -> Device)",
     "Memcpy HtoD (Pageable -> Device)", "Memcpy DtoH (Device -> Pinned)" >>

\* sym_index.get(s, None): the id of name s; 0 stands for None, no row's name.
sym_index_get(s) ==
  IF \E i \in DOMAIN sym_table : sym_table[i] = s
  THEN CHOOSE i \in DOMAIN sym_table : sym_table[i] = s
  ELSE 0

get_kernel_type(s) ==
  IF s \in { "Memcpy HtoD (Pinned -> Device)", "Memcpy HtoD (Pageable -> Device)",
             "Memcpy DtoH (Device -> Pinned)" }
  THEN "MEMORY"
  ELSE "COMPUTATION"

get_memory_kernel_type(s) ==
  CASE s = "Memcpy HtoD (Pinned -> Device)" -> "Memcpy HtoD"
    [] s = "Memcpy HtoD (Pageable -> Device)" -> "Memcpy HtoD"
    [] s = "Memcpy DtoH (Device -> Pinned)" -> "Memcpy DtoH"
    [] OTHER -> "Memcpy Unknown"

\* the channel names, in the order groupby("name") yields its groups
ChannelNames == << "Memcpy DtoH", "Memcpy HtoD", "Memcpy Unknown" >>

(***************************************************************************)
(* Events of the trace.                                                    *)
(***************************************************************************)
NoStream == -1      \* the stream of a host-side event
NaN == -99          \* the null a left join leaves in an unmatched row

Event(ts, dur, pid, tid, stream, name, icorr, corr, bw) ==
  [ts |-> ts, dur |-> dur, pid |-> pid, tid |-> tid, stream |-> stream,
   name |-> name, index_correlation |-> icorr, correlation |-> corr,
   memory_bw_gbps |-> bw]

HostCall(ts, s, icorr, corr) ==
  Event(ts, 1, 7, 8, NoStream, sym_index_get(s), icorr, corr, 0)

DeviceKernel(ts, stream, corr) ==
  Event(ts, 1, 0, stream, stream, sym_index_get("gemm_kernel"), 1, corr, 0)

MemoryEvent(ts, dur, stream, s, corr, bw) ==
  Event(ts, dur, 0, stream, stream, sym_index_get(s), 1, corr, bw)

Timestamps == 0..MaxTs

\* events of the queue-length traces
QlEvents ==
  UNION { { HostCall(ts, "cudaLaunchKernel", 1, 1),
            HostCall(ts, "cudaLaunchKernel", 1, 2),
            HostCall(ts, "cudaMemcpyAsync", 1, 1),
            HostCall(ts, "cudaMemsetAsync", 1, 2),
            HostCall(ts, "cudaLaunchKernel", 0, 1),
            HostCall(ts, "aten::add", 1, 1) }
          \cup { DeviceKernel(ts, s, c) : s \in StreamIds, c \in CorrelationIds }
        : ts \in Timestamps }

\* events of the memory-bandwidth traces
BwEvents ==
  UNION { { MemoryEvent(ts, d, 0, s, 1, b) :
              d \in 0..MaxDur, b \in 1..MaxBw,
              s \in { "Memcpy HtoD (Pinned -> Device)",
                      "Memcpy DtoH (Device -> Pinned)" } }
          \cup { MemoryEvent(ts, 1, 0, "Memcpy HtoD (Pageable -> Device)", 1, 1),
                 DeviceKernel(ts, 0, 1),
                 HostCall(ts, "cudaMemcpyAsync", 1, 1) }
        : ts \in Timestamps }

\* events of the multi-rank traces
MixedEvents ==
  UNION { { HostCall(ts, "cudaLaunchKernel", 1, 1),
            DeviceKernel(ts, 0, 1),
            MemoryEvent(ts, 1, 1, "Memcpy HtoD (Pinned -> Device)", 2, 1),
            MemoryEvent(ts, 0, 1, "Memcpy HtoD (Pageable -> Device)", 2, 2) }
        : ts \in Timestamps }

RECURSIVE SetToSeq(_)
SetToSeq(S) ==
  IF S = {} THEN <<>>
  ELSE LET x == CHOOSE y \in S : TRUE IN <<x>> \o SetToSeq(S \ {x})

\* a row of trace_df: the event and its "index" column
Row(e, i) ==
  [index |-> i, ts |-> e.ts, dur |-> e.dur, pid |-> e.pid, tid |-> e.tid,
   stream |-> e.stream, name |-> e.name,
   index_correlation |-> e.index_correlation, correlation |-> e.correlation,
   memory_bw_gbps |-> e.memory_bw_gbps]

\* the events of each kind of trace, listed
QlEventSeq == SetToSeq(QlEvents)
BwEventSeq == SetToSeq(BwEvents)
MixedEventSeq == SetToSeq(MixedEvents \X (0..MaxRank))

\* the table of the events dom[idx[1]], dom[idx[2]], ...
Table(dom, idx) == [k \in 1..Len(idx) |-> Row(dom[idx[k]], k - 1)]

\* the rows of rank r among the <<event, rank>> pairs dom[idx[1]], ...
RankTable(dom, idx, r) ==
  LET mine == SelectSeq(idx, LAMBDA i : dom[i][2] = r)
  IN  [k \in 1..Len(mine) |-> Row(dom[mine[k]][1], k - 1)]

(***************************************************************************)
(* Data frame helpers.                                                     *)
(***************************************************************************)
Min(S) == CHOOSE x \in S : \A y \in S : x <= y
Max(S) == CHOOSE x \in S : \A y \in S : x >= y

RECURSIVE Concat(_)
Concat(dfs) == IF dfs = <<>> THEN <<>> ELSE Head(dfs) \o Concat(Tail(dfs))

RECURSIVE SortedOrders(_, _)
SortedOrders(df, P) ==
  IF P = {} THEN { <<>> }
  ELSE LET m == Min({ df[p].ts : p \in P })
       IN  UNION { { <<df[p]>> \o s : s \in SortedOrders(df, P \ {p}) } :
                     p \in { q \in P : df[q].ts = m } }

\* sort_values left out: the frame as it was concatenated
no_sort(df) == { df }

\* sort_values(by="ts", ascending=False)
RECURSIVE DescendingOrders(_, _)
DescendingOrders(df, P) ==
  IF P = {} THEN { <<>> }
  ELSE LET m == Max({ df[p].ts : p \in P })
       IN  UNION { { <<df[p]>> \o s : s \in DescendingOrders(df, P \ {p}) } :
                     p \in { q \in P : df[q].ts = m } }

sort_descending(df) == DescendingOrders(df, DOMAIN df)

\* df.sort_values(by="ts"): every order of the rows that is ascending in ts
sort_values(df) == SortedOrders(df, DOMAIN df)

\* cumsum left out: the deltas themselves
no_cumsum(xs) == xs

\* Series.cumsum()
RECURSIVE cumsum(_)
cumsum(xs) ==
  IF xs = <<>> THEN <<>>
  ELSE LET p == cumsum(SubSeq(xs, 1, Len(xs) - 1))
       IN  Append(p, (IF p = <<>> THEN 0 ELSE p[Len(p)]) + xs[Len(xs)])

\* the keys of a set of integers, ascending (the order of groupby's groups)
RECURSIVE Ascending(_)
Ascending(S) ==
  IF S = {} THEN <<>> ELSE <<Min(S)>> \o Ascending(S \ {Min(S)})

(***************************************************************************)
(* _get_queue_length_time_series_for_rank                                  *)
(***************************************************************************)
\* the query without cudaMemsetAsync
is_runtime_call_two_names(e) ==
  /\ \/ e.name = sym_index_get("cudaMemcpyAsync")
     \/ e.name = sym_index_get("cudaLaunchKernel")
  /\ e.index_correlation > 0

\* the query of lines 54-57
is_runtime_call(e) ==
  /\ \/ e.name = sym_index_get("cudaMemsetAsync")
     \/ e.name = sym_index_get("cudaMemcpyAsync")
     \/ e.name = sym_index_get("cudaLaunchKernel")
  /\ e.index_correlation > 0

runtime_calls(trace_df) == SelectSeq(trace_df, is_runtime_call)

\* trace_df[trace_df["stream"].ne(-1)]
gpu_kernels(trace_df) == SelectSeq(trace_df, LAMBDA e : e.stream # NoStream)

\* a row of the merged frame; queue is the row's delta
QueueRow(index, ts, stream, pid, tid, queue) ==
  [index |-> index, ts |-> ts, stream |-> stream, pid |-> pid, tid |-> tid,
   queue |-> queue]

\* the call keeps its own stream, pid and tid
joined_row_own(rc, gk) == QueueRow(rc.index, rc.ts, rc.stream, rc.pid, rc.tid, 1)

\* a runtime call joined to one GPU event of its correlation: stream, pid and
\* tid are the GPU event's (the call's own were dropped)
joined_row(rc, gk) == QueueRow(rc.index, rc.ts, gk.stream, gk.pid, gk.tid, 1)

\* runtime_calls.join(gpu_kernels[...].set_index("correlation"), on="correlation"):
\* a left join, one row per matching GPU event, one row of nulls when none matches
join_one(rc, gks) ==
  LET m == SelectSeq(gks, LAMBDA gk : gk.correlation = rc.correlation)
  IN  IF m = <<>>
      THEN << QueueRow(rc.index, rc.ts, NaN, NaN, NaN, 1) >>
      ELSE [k \in 1..Len(m) |-> joined_row(rc, m[k])]

join(rcs, gks) == Concat([k \in 1..Len(rcs) |-> join_one(rcs[k], gks)])

gpu_row(gk) == QueueRow(gk.index, gk.ts, gk.stream, gk.pid, gk.tid, -1)

\* the frame of lines 67-77, before it is sorted
ql_concat(trace_df) ==
  LET gks == gpu_kernels(trace_df)
  IN  join(runtime_calls(trace_df), gks) \o [k \in 1..Len(gks) |-> gpu_row(gks[k])]

\* groupby("stream", dropna=False)
stream_keys_keep_null(merged_df) ==
  Ascending({ merged_df[k].stream : k \in DOMAIN merged_df })

\* the keys of merged_df.groupby("stream"): null keys are dropped
stream_keys(merged_df) ==
  Ascending({ merged_df[k].stream : k \in DOMAIN merged_df } \ {NaN})

\* one group of lines 83-86, projected on the columns of line 89
stream_series(merged_df, stream) ==
  LET stream_df == SelectSeq(merged_df, LAMBDA r : r.stream = stream)
      acc == cumsum([k \in 1..Len(stream_df) |-> stream_df[k].queue])
  IN  [k \in 1..Len(stream_df) |->
         [index |-> stream_df[k].index, ts |-> stream_df[k].ts,
          pid |-> stream_df[k].pid, tid |-> stream_df[k].tid,
          stream |-> stream_df[k].stream, queue_length |-> acc[k]]]

\* lines 82-92 on a sorted merged_df
ql_result(merged_df) ==
  LET keys == stream_keys(merged_df)
      result_df_list == [k \in 1..Len(keys) |-> stream_series(merged_df, keys[k])]
  IN  IF Len(result_df_list) > 0
      THEN [is_none |-> FALSE, rows |-> Concat(result_df_list)]
      ELSE [is_none |-> TRUE, rows |-> <<>>]

\* the results the builder may return for a rank's table
queue_length_time_series_for_rank(trace_df) ==
  { ql_result(merged_df) : merged_df \in sort_values(ql_concat(trace_df)) }

(***************************************************************************)
(* _get_memory_bw_time_series_for_rank                                     *)
(***************************************************************************)
\* durations left as they are
round_up_dur_none(dur) == dur

\* line 196: a duration of 0 is rounded up to 1
round_up_dur(dur) == IF dur = 0 THEN 1 ELSE dur

\* lines 184-196: the memory events, named by channel
memcpy_kernels(trace_df) ==
  LET mem == SelectSeq(gpu_kernels(trace_df),
                       LAMBDA e : get_kernel_type(sym_table[e.name]) = "MEMORY")
  IN  [k \in 1..Len(mem) |->
         [ts |-> mem[k].ts, dur |-> round_up_dur(mem[k].dur), pid |-> mem[k].pid,
          name |-> get_memory_kernel_type(sym_table[mem[k].name]),
          memory_bw_gbps |-> mem[k].memory_bw_gbps]]

BwRow(ts, pid, name, bw) ==
  [ts |-> ts, pid |-> pid, name |-> name, memory_bw_gbps |-> bw]

\* line 198
membw_time_series_a(mk) == BwRow(mk.ts, mk.pid, mk.name, mk.memory_bw_gbps)

\* the end events left at the start timestamp
membw_time_series_b_at_start(mk) == BwRow(mk.ts, mk.pid, mk.name, -mk.memory_bw_gbps)

\* lines 199-203: the end events
membw_time_series_b(mk) == BwRow(mk.ts + mk.dur, mk.pid, mk.name, -mk.memory_bw_gbps)

\* lines 205-210: concat with ignore_index=True numbers the rows anew
bw_concat(trace_df) ==
  LET mks == memcpy_kernels(trace_df)
      n == Len(mks)
      both == [k \in 1..(2 * n) |->
                 IF k <= n THEN membw_time_series_a(mks[k])
                 ELSE membw_time_series_b(mks[k - n])]
  IN  [k \in 1..(2 * n) |->
         [index |-> k - 1, ts |-> both[k].ts, pid |-> both[k].pid,
          name |-> both[k].name, memory_bw_gbps |-> both[k].memory_bw_gbps]]

\* the keys of membw_time_series.groupby("name"), in the order of the groups
name_keys(membw_time_series) ==
  SelectSeq(ChannelNames,
            LAMBDA c : \E k \in DOMAIN membw_time_series : membw_time_series[k].name = c)

\* one group of lines 214-216
name_series(membw_time_series, name) ==
  LET membw_df == SelectSeq(membw_time_series, LAMBDA r : r.name = name)
      acc == cumsum([k \in 1..Len(membw_df) |-> membw_df[k].memory_bw_gbps])
  IN  [k \in 1..Len(membw_df) |-> [membw_df[k] EXCEPT !.memory_bw_gbps = acc[k]]]

\* lines 213-222 on a sorted membw_time_series
bw_result(membw_time_series) ==
  LET keys == name_keys(membw_time_series)
      result_df_list == [k \in 1..Len(keys) |-> name_series(membw_time_series, keys[k])]
  IN  IF Len(result_df_list) = 0
      THEN [is_none |-> TRUE, rows |-> <<>>]
      ELSE [is_none |-> FALSE, rows |-> Concat(result_df_list)]

memory_bw_time_series_for_rank(trace_df) ==
  { bw_result(m) : m \in sort_values(bw_concat(trace_df)) }

(***************************************************************************)
(* The public methods.                                                     *)
(***************************************************************************)
\* the ranks argument: None, or a list of ranks of the trace
RankArgs ==
  LET n == Cardinality(DOMAIN trace)
  IN  { [is_none |-> TRUE, list |-> <<>>], [is_none |-> FALSE, list |-> <<>>] }
      \cup { [is_none |-> FALSE, list |-> <<r>>] : r \in DOMAIN trace }
      \cup { [is_none |-> FALSE, list |-> [i \in 1..n |-> i - 1]],
             [is_none |-> FALSE, list |-> [i \in 1..n |-> n - i]] }

\* "if ranks is None or len(ranks) == 0: ranks = [0]"
default_ranks(arg) == IF arg.is_none \/ Len(arg.list) = 0 THEN <<0>> ELSE arg.list

\* the dicts {rank: result}, result one of outcomes[rank]
RECURSIVE ResultMaps(_, _)
ResultMaps(S, outcomes) ==
  IF S = {} THEN { <<>> }
  ELSE LET r == CHOOSE x \in S : TRUE
       IN  { [x \in S |-> IF x = r THEN o ELSE m[x]] :
               m \in ResultMaps(S \ {r}, outcomes), o \in outcomes[r] }

\* the dict unfiltered: a rank without result keeps an empty entry
filter_nothing(result) == [r \in DOMAIN result |-> result[r].rows]

\* dict(filter(lambda x: x[1] is not None, result.items()))
filter_not_none(result) ==
  [r \in { x \in DOMAIN result : ~result[x].is_none } |-> result[r].rows]

\* get_queue_length_time_series: the dicts it may return
queue_length_time_series(rs) ==
  LET S == { rs[k] : k \in DOMAIN rs }
      outcomes == [r \in S |-> queue_length_time_series_for_rank(trace[r])]
  IN  { filter_not_none(result) : result \in ResultMaps(S, outcomes) }

\* get_memory_bw_time_series: the dicts it may return
memory_bw_time_series(rs) ==
  LET S == { rs[k] : k \in DOMAIN rs }
      outcomes == [r \in S |-> memory_bw_time_series_for_rank(trace[r])]
  IN  { filter_not_none(result) : result \in ResultMaps(S, outcomes) }

\* groupby(keys).describe() of the rows of a rank: count, min and max of the
\* value column per key (mean, std and the quartiles are left out)
describe(values) ==
  [count |-> Len(values),
   min |-> Min({ values[k] : k \in DOMAIN values }),
   max |-> Max({ values[k] : k \in DOMAIN values })]

\* lines 155-161: every row of every rank is aggregated
queue_length_summary(series) ==
  LET keys == UNION { { <<r, series[r][k].stream>> : k \in DOMAIN series[r] } :
                      r \in DOMAIN series }
      values(key) ==
        LET g == SelectSeq(series[key[1]], LAMBDA row : row.stream = key[2])
        IN  [k \in 1..Len(g) |-> g[k].queue_length]
  IN  IF DOMAIN series = {}
      THEN [is_none |-> TRUE, table |-> <<>>]
      ELSE [is_none |-> FALSE, table |-> [key \in keys |-> describe(values(key))]]

\* the filter with >= for >
non_negative_rows(rank_df) == SelectSeq(rank_df, LAMBDA row : row.memory_bw_gbps >= 0)

\* line 282: "Exclude the 0 points in time series"
positive_rows(rank_df) == SelectSeq(rank_df, LAMBDA row : row.memory_bw_gbps > 0)

\* lines 277-286
memory_bw_summary(series) ==
  LET kept == [r \in DOMAIN series |-> positive_rows(series[r])]
      keys == UNION { { <<r, kept[r][k].name>> : k \in DOMAIN kept[r] } :
                      r \in DOMAIN series }
      values(key) ==
        LET g == SelectSeq(kept[key[1]], LAMBDA row : row.name = key[2])
        IN  [k \in 1..Len(g) |-> g[k].memory_bw_gbps]
  IN  IF DOMAIN series = {}
      THEN [is_none |-> TRUE, table |-> <<>>]
      ELSE [is_none |-> FALSE, table |-> [key \in keys |-> describe(values(key))]]

(***************************************************************************)
(* The state machine: a trace, then one call of a public method.           *)
(***************************************************************************)
NotCalled ==
  /\ pc = "init"
  /\ ranks = <<>>
  /\ ql_series = <<>>
  /\ bw_series = <<>>
  /\ ql_summary = [is_none |-> TRUE, table |-> <<>>]
  /\ bw_summary = [is_none |-> TRUE, table |-> <<>>]

\* The trace is any table of at most n events of the list dom, chosen by the
\* non-decreasing index lists idx.  No operation reads the order of the rows
\* of a table (the sort's ties are nondeterministic), so one order stands for
\* each multiset of events.
RECURSIVE OneRankTrace(_, _, _, _)
OneRankTrace(dom, idx, lo, n) ==
  \/ trace = [r \in {0} |-> Table(dom, idx)]
  \/ /\ Len(idx) < n
     /\ \E i \in lo..Len(dom) : OneRankTrace(dom, Append(idx, i), i, n)

RECURSIVE ManyRankTrace(_, _, _, _)
ManyRankTrace(dom, idx, lo, n) ==
  \/ trace = [r \in 0..MaxRank |-> RankTable(dom, idx, r)]
  \/ /\ Len(idx) < n
     /\ \E i \in lo..Len(dom) : ManyRankTrace(dom, Append(idx, i), i, n)

\* traces of several ranks, with events of both kinds
Init ==
  /\ ManyRankTrace(MixedEventSeq, <<>>, 1, MaxEvents)
  /\ NotCalled

\* one rank, every event kind the queue-length builder tells apart
InitQL ==
  /\ OneRankTrace(QlEventSeq, <<>>, 1, MaxQlEvents)
  /\ NotCalled

\* one rank, every event kind the memory-bandwidth builder tells apart
InitBW ==
  /\ OneRankTrace(BwEventSeq, <<>>, 1, MaxBwEvents)
  /\ NotCalled

get_queue_length_time_series ==
  /\ pc = "init"
  /\ \E rs \in { default_ranks(arg) : arg \in RankArgs } :
       \E result \in queue_length_time_series(rs) :
         /\ ranks' = rs
         /\ ql_series' = result
  /\ pc' = "get_queue_length_time_series"
  /\ UNCHANGED <<trace, ql_summary, bw_series, bw_summary>>

\* the summary is built from the time series the method gets itself
get_queue_length_summary ==
  /\ pc = "init"
  /\ \E rs \in { default_ranks(arg) : arg \in RankArgs } :
       \E result \in queue_length_time_series(rs) :
         /\ ranks' = rs
         /\ ql_series' = result
         /\ ql_summary' = queue_length_summary(result)
  /\ pc' = "get_queue_length_summary"
  /\ UNCHANGED <<trace, bw_series, bw_summary>>

get_memory_bw_time_series ==
  /\ pc = "init"
  /\ \E rs \in { default_ranks(arg) : arg \in RankArgs } :
       \E result \in memory_bw_time_series(rs) :
         /\ ranks' = rs
         /\ bw_series' = result
  /\ pc' = "get_memory_bw_time_series"
  /\ UNCHANGED <<trace, ql_series, ql_summary, bw_summary>>

get_memory_bw_summary ==
  /\ pc = "init"
  /\ \E rs \in { default_ranks(arg) : arg \in RankArgs } :
       \E result \in memory_bw_time_series(rs) :
         /\ ranks' = rs
         /\ bw_series' = result
         /\ bw_summary' = memory_bw_summary(result)
  /\ pc' = "get_memory_bw_summary"
  /\ UNCHANGED <<trace, ql_series, ql_summary>>

Next ==
  \/ get_queue_length_time_series
  \/ get_queue_length_summary
  \/ get_memory_bw_time_series
  \/ get_memory_bw_summary

Spec == Init /\ [][Next]_vars
SpecQL == InitQL /\ [][Next]_vars
SpecBW == InitBW /\ [][Next]_vars

(***************************************************************************)
(* What the properties below read of a trace table and of a time series.   *)
(***************************************************************************)
RECURSIVE SumSeq(_)
SumSeq(xs) == IF xs = <<>> THEN 0 ELSE Head(xs) + SumSeq(Tail(xs))

QlCalled == pc \in { "get_queue_length_time_series", "get_queue_length_summary" }
BwCalled == pc \in { "get_memory_bw_time_series", "get_memory_bw_summary" }
Requested == { ranks[k] : k \in DOMAIN ranks }

\* the rows of one stream, of one channel, in output order
StreamGroup(rows, s) == SelectSeq(rows, LAMBDA row : row.stream = s)
ChannelGroup(rows, c) == SelectSeq(rows, LAMBDA row : row.name = c)
StreamsOf(rows) == { rows[k].stream : k \in DOMAIN rows }
ChannelsOf(rows) == { rows[k].name : k \in DOMAIN rows }

\* positions in a table of the device-side events and of the enqueue calls
DeviceEvents(tb) == { k \in DOMAIN tb : tb[k].stream # -1 }
EnqueueCalls(tb) ==
  { k \in DOMAIN tb :
      /\ sym_table[tb[k].name] \in
           { "cudaLaunchKernel", "cudaMemcpyAsync", "cudaMemsetAsync" }
      /\ tb[k].index_correlation > 0 }
\* the device-side events that share the correlation id of event k
Correlated(tb, k) == { d \in DeviceEvents(tb) : tb[d].correlation = tb[k].correlation }
\* the enqueue calls that share the correlation id of event d
CallsOf(tb, d) == { c \in EnqueueCalls(tb) : tb[c].correlation = tb[d].correlation }

\* the memory events of a table, in table order, and their channels
MemoryEvents(tb) ==
  SelectSeq(tb, LAMBDA e : e.stream # -1 /\ get_kernel_type(sym_table[e.name]) = "MEMORY")
ChannelOf(e) == get_memory_kernel_type(sym_table[e.name])
EffectiveDur(e) == IF e.dur > 1 THEN e.dur ELSE 1

\* the delta an output row stands for, read from the table
QlDelta(tb, row) == IF tb[row.index + 1].stream = -1 THEN 1 ELSE -1
BwDelta(tb, row) ==
  LET mem == MemoryEvents(tb)
  IN  IF row.index < Len(mem)
      THEN mem[row.index + 1].memory_bw_gbps
      ELSE -mem[row.index - Len(mem) + 1].memory_bw_gbps

SortedByTs(rows) == \A i, j \in DOMAIN rows : i < j => rows[i].ts <= rows[j].ts

(***************************************************************************)
(* C1: in the time series of either builder, the rows of one group (one    *)
(* stream, one channel), in output order, have non-decreasing timestamps.  *)
(***************************************************************************)
C1_GroupsSortedByTs ==
  /\ \A r \in DOMAIN ql_series : \A s \in StreamsOf(ql_series[r]) :
       SortedByTs(StreamGroup(ql_series[r], s))
  /\ \A r \in DOMAIN bw_series : \A c \in ChannelsOf(bw_series[r]) :
       SortedByTs(ChannelGroup(bw_series[r], c))

\* a stream whose rows were out of order before the sort and rise in the output
C1_Witness ==
  /\ pc = "get_queue_length_time_series"
  /\ \E r \in DOMAIN ql_series :
       /\ ~SortedByTs(ql_concat(trace[r]))
       /\ \E s \in StreamsOf(ql_series[r]) :
            LET g == StreamGroup(ql_series[r], s)
            IN  \E k \in DOMAIN g : k > 1 /\ g[k - 1].ts < g[k].ts

C6_EmptyRanksAbsent ==
  /\ QlCalled =>
       /\ DOMAIN ql_series = { r \in Requested : DeviceEvents(trace[r]) # {} }
       /\ \A r \in DOMAIN ql_series : Len(ql_series[r]) >= 1
  /\ BwCalled =>
       /\ DOMAIN bw_series = { r \in Requested : MemoryEvents(trace[r]) # <<>> }
       /\ \A r \in DOMAIN bw_series : Len(bw_series[r]) >= 1

\* two ranks were requested; one has a time series, the other has no event
C6_Witness ==
  /\ pc = "get_memory_bw_time_series"
  /\ \E r1, r2 \in Requested :
       /\ r1 \in DOMAIN bw_series
       /\ Len(trace[r2]) > 0
       /\ r2 \notin DOMAIN bw_series

(***************************************************************************)
(* C8: the bandwidth summary has, per rank and channel, the count, minimum *)
(* and maximum of exactly the rows of the rank's time series whose value   *)
(* is above 0; the queue-length summary has those of every row per rank    *)
(* and stream; a summary is None exactly when no rank has a time series.   *)
(***************************************************************************)
StatsOf(values) ==
  [count |-> Cardinality(DOMAIN values),
   min |-> CHOOSE v \in { values[k] : k \in DOMAIN values } :
             \A k \in DOMAIN values : v <= values[k],
   max |-> CHOOSE v \in { values[k] : k \in DOMAIN values } :
             \A k \in DOMAIN values : v >= values[k]]

C8_SummaryRows ==
  /\ pc = "get_memory_bw_summary" =>
       /\ bw_summary.is_none <=> DOMAIN bw_series = {}
       /\ \A key \in DOMAIN bw_summary.table : key[1] \in DOMAIN bw_series
       /\ \A r \in DOMAIN bw_series : \A c \in ChannelsOf(bw_series[r]) :
            LET g == ChannelGroup(bw_series[r], c)
                pos == SelectSeq(g, LAMBDA row : row.memory_bw_gbps > 0)
            IN  IF pos = <<>>
                THEN <<r, c>> \notin DOMAIN bw_summary.table
                ELSE /\ <<r, c>> \in DOMAIN bw_summary.table
                     /\ bw_summary.table[<<r, c>>] =
                          StatsOf([k \in DOMAIN pos |-> pos[k].memory_bw_gbps])
  /\ pc = "get_queue_length_summary" =>
       /\ ql_summary.is_none <=> DOMAIN ql_series = {}
       /\ DOMAIN ql_summary.table =
            UNION { { <<r, s>> : s \in StreamsOf(ql_series[r]) } : r \in DOMAIN ql_series }
       /\ \A r \in DOMAIN ql_series : \A s \in StreamsOf(ql_series[r]) :
            LET g == StreamGroup(ql_series[r], s)
            IN  ql_summary.table[<<r, s>>] =
                  StatsOf([k \in DOMAIN g |-> g[k].queue_length])

\* a channel with rows at 0 and rows above 0: the summary counts only the latter
C8_Witness ==
  /\ pc = "get_memory_bw_summary"
  /\ \E key \in DOMAIN bw_summary.table :
       LET g == ChannelGroup(bw_series[key[1]], key[2])
       IN  /\ \E k \in DOMAIN g : g[k].memory_bw_gbps = 0
           /\ bw_summary.table[key].count = 3
           /\ bw_summary.table[key].count < Len(g)
           /\ bw_summary.table[key].min < bw_summary.table[key].max

(***************************************************************************)
(* C4 as claimed: an enqueue call whose correlation id is shared by a      *)
(* device-side event yields exactly one output row.                        *)
(***************************************************************************)
RowsOf(rows, index) == { k \in DOMAIN rows : rows[k].index = index }

C4_OneRowPerCall ==
  \A r \in DOMAIN ql_series : \A c \in EnqueueCalls(trace[r]) :
    Correlated(trace[r], c) # {}
      => Cardinality(RowsOf(ql_series[r], trace[r][c].index)) = 1

(***************************************************************************)
(* C4 as amended: an enqueue call yields one row per device-side event     *)
(* that shares its correlation id (so exactly one row when exactly one     *)
(* such event exists); each of these rows is a delta of +1 at the call's   *)
(* own timestamp and carries the stream, process id and thread id of that  *)
(* device-side event.                                                      *)
(***************************************************************************)
\* the delta of row k: its value less the value of the row before it in its stream
DeltaAt(rows, k) ==
  LET before == { j \in 1..(k - 1) : rows[j].stream = rows[k].stream }
  IN  rows[k].queue_length -
        (IF before = {} THEN 0 ELSE rows[Max(before)].queue_length)

C4_OneRowPerCorrelatedEvent ==
  \A r \in DOMAIN ql_series : \A c \in EnqueueCalls(trace[r]) :
    LET tb == trace[r]
        rows == ql_series[r]
        mine == RowsOf(rows, tb[c].index)
    IN  /\ Cardinality(mine) = Cardinality(Correlated(tb, c))
        /\ \A k \in mine : rows[k].ts = tb[c].ts /\ DeltaAt(rows, k) = 1
        /\ \A d \in Correlated(tb, c) :
             Cardinality({ k \in mine :
                             /\ rows[k].stream = tb[d].stream
                             /\ rows[k].pid = tb[d].pid
                             /\ rows[k].tid = tb[d].tid })
               = Cardinality({ e \in Correlated(tb, c) :
                                 /\ tb[e].stream = tb[d].stream
                                 /\ tb[e].pid = tb[d].pid
                                 /\ tb[e].tid = tb[d].tid })

\* a call whose correlation id two device-side events on two streams share:
\* two rows, one on each stream, none with the call's own pid and tid
C4_Witness ==
  /\ pc = "get_queue_length_time_series"
  /\ \E r \in DOMAIN ql_series : \E c \in EnqueueCalls(trace[r]) :
       LET tb == trace[r]
           rows == ql_series[r]
           mine == RowsOf(rows, tb[c].index)
       IN  /\ Cardinality(Correlated(tb, c)) = 2
           /\ { tb[d].stream : d \in Correlated(tb, c) } = {0, 1}
           /\ { rows[k].stream : k \in mine } = {0, 1}
           /\ \A k \in mine : rows[k].pid # tb[c].pid /\ rows[k].tid # tb[c].tid

(***************************************************************************)
(* C5: an enqueue call whose correlation id no device-side event shares    *)
(* has no row in the output, and the output is one the builder gives for   *)
(* the table without these calls: no queue length is changed by them.      *)
(***************************************************************************)
Unmatched(tb) == { c \in EnqueueCalls(tb) : Correlated(tb, c) = {} }
WithoutUnmatched(tb) ==
  LET keep == { k \in DOMAIN tb : k \notin Unmatched(tb) }
      pos == Ascending(keep)
  IN  [k \in 1..Len(pos) |-> tb[pos[k]]]

C5_CorrelationMiss ==
  QlCalled =>
    \A r \in Requested :
      LET tb == trace[r]
          got == IF r \in DOMAIN ql_series
                 THEN [is_none |-> FALSE, rows |-> ql_series[r]]
                 ELSE [is_none |-> TRUE, rows |-> <<>>]
      IN  /\ \A c \in Unmatched(tb) : RowsOf(got.rows, tb[c].index) = {}
          /\ \A k \in DOMAIN got.rows : got.rows[k].stream \in StreamIds
          /\ Unmatched(tb) # {}
               => got \in queue_length_time_series_for_rank(WithoutUnmatched(tb))

\* an unmatched call between the call and the device-side event of a stream
C5_Witness ==
  /\ pc = "get_queue_length_time_series"
  /\ \E r \in DOMAIN ql_series :
       /\ Unmatched(trace[r]) # {}
       /\ Len(ql_series[r]) = 2
       /\ ql_series[r][1].queue_length = 1

(***************************************************************************)
(* C10: if every device-side event has exactly one enqueue call that is    *)
(* counted, shares its correlation id and has a smaller timestamp, no      *)
(* queue length is negative.  Without it negative values occur: on a       *)
(* stream none of whose device-side events has a counted enqueue call,     *)
(* every queue length is negative.                                         *)
(***************************************************************************)
EarlierCallsOf(tb, d) == { c \in CallsOf(tb, d) : tb[c].ts < tb[d].ts }

C10_QueueLengthNonNegative ==
  \A r \in DOMAIN ql_series :
    LET tb == trace[r]
        rows == ql_series[r]
    IN  /\ (\A d \in DeviceEvents(tb) : Cardinality(EarlierCallsOf(tb, d)) = 1)
             => \A k \in DOMAIN rows : rows[k].queue_length >= 0
        /\ \A s \in StreamsOf(rows) :
             (\A d \in DeviceEvents(tb) : tb[d].stream = s => CallsOf(tb, d) = {})
               => \A k \in DOMAIN rows : rows[k].stream = s => rows[k].queue_length < 0

\* two device-side events, each enqueued before it runs; the queue reaches 2
C10_Witness ==
  /\ pc = "get_queue_length_time_series"
  /\ \E r \in DOMAIN ql_series :
       /\ Cardinality(DeviceEvents(trace[r])) = 2
       /\ \A d \in DeviceEvents(trace[r]) : Cardinality(EarlierCallsOf(trace[r], d)) = 1
       /\ \E k \in DOMAIN ql_series[r] : ql_series[r][k].queue_length = 2

(***************************************************************************)
(* C3 as claimed: every row of a channel has the sum of the bandwidths of  *)
(* the transfers of the channel in flight at the row's timestamp t         *)
(* (start <= t < start + duration, a duration of 0 taken as 1).            *)
(***************************************************************************)
InFlight(tb, c, t) ==
  LET mem == MemoryEvents(tb)
  IN  SumSeq([i \in DOMAIN mem |->
                IF /\ ChannelOf(mem[i]) = c
                   /\ mem[i].ts <= t
                   /\ t < mem[i].ts + EffectiveDur(mem[i])
                THEN mem[i].memory_bw_gbps
                ELSE 0])

C3_EveryRowInFlightSum ==
  \A r \in DOMAIN bw_series : \A k \in DOMAIN bw_series[r] :
    LET row == bw_series[r][k]
    IN  row.memory_bw_gbps = InFlight(trace[r], row.name, row.ts)

(***************************************************************************)
(* C3 as amended: the last row of a channel at a timestamp t (the value    *)
(* the step function keeps from t on) has the sum of the bandwidths of the *)
(* transfers of the channel in flight at t; earlier rows of the same       *)
(* timestamp hold partial sums.                                            *)
(***************************************************************************)
LastAtTs(rows, k) ==
  \A j \in DOMAIN rows :
    (j > k /\ rows[j].name = rows[k].name) => rows[j].ts # rows[k].ts

C3_LastRowInFlightSum ==
  \A r \in DOMAIN bw_series : \A k \in DOMAIN bw_series[r] :
    LET row == bw_series[r][k]
    IN  LastAtTs(bw_series[r], k)
          => row.memory_bw_gbps = InFlight(trace[r], row.name, row.ts)

\* one transfer ends where another of its channel starts: two rows at that
\* timestamp, the first a partial sum, the second the bandwidth in flight
C3_Witness ==
  /\ pc = "get_memory_bw_time_series"
  /\ \E r \in DOMAIN bw_series : \E k \in DOMAIN bw_series[r] :
       LET rows == bw_series[r]
           n == Len(MemoryEvents(trace[r]))
       IN  /\ k > 1
           /\ rows[k - 1].name = rows[k].name
           /\ rows[k - 1].ts = rows[k].ts
           /\ (rows[k - 1].index < n) # (rows[k].index < n)
           /\ LastAtTs(rows, k)
           /\ rows[k - 1].memory_bw_gbps # rows[k].memory_bw_gbps
           /\ rows[k].memory_bw_gbps = InFlight(trace[r], rows[k].name, rows[k].ts)
           /\ rows[k].memory_bw_gbps > 0

(***************************************************************************)
(* C7: the i-th memory event of a rank has one start row, at its timestamp *)
(* s, and one end row, at s + max(duration, 1): at s + 1 for a duration of *)
(* 0 as for a duration of 1, never at s.  The end row's delta is the       *)
(* negation of the start row's, the event's bandwidth.                     *)
(***************************************************************************)
BwDeltaAt(rows, k) ==
  LET before == { j \in 1..(k - 1) : rows[j].name = rows[k].name }
  IN  rows[k].memory_bw_gbps -
        (IF before = {} THEN 0 ELSE rows[Max(before)].memory_bw_gbps)

C7_EndDelta ==
  BwCalled =>
    \A r \in Requested :
      LET mem == MemoryEvents(trace[r])
          n == Len(mem)
      IN  \A i \in 1..n :
            /\ r \in DOMAIN bw_series
            /\ Cardinality(RowsOf(bw_series[r], i - 1)) = 1
            /\ Cardinality(RowsOf(bw_series[r], n + i - 1)) = 1
            /\ LET rows == bw_series[r]
                   a == CHOOSE k \in DOMAIN rows : rows[k].index = i - 1
                   b == CHOOSE k \in DOMAIN rows : rows[k].index = n + i - 1
               IN  /\ rows[a].ts = mem[i].ts
                   /\ rows[b].ts = mem[i].ts + (IF mem[i].dur <= 1 THEN 1 ELSE mem[i].dur)
                   /\ rows[b].ts > rows[a].ts
                   /\ rows[a].name = ChannelOf(mem[i])
                   /\ rows[b].name = ChannelOf(mem[i])
                   /\ BwDeltaAt(rows, a) = mem[i].memory_bw_gbps
                   /\ BwDeltaAt(rows, b) = -BwDeltaAt(rows, a)

\* an event of duration 0 and one of duration 1 that start together: their
\* end rows have the same timestamp
C7_Witness ==
  /\ pc = "get_memory_bw_time_series"
  /\ \E r \in DOMAIN bw_series :
       LET mem == MemoryEvents(trace[r])
           rows == bw_series[r]
       IN  /\ Len(mem) = 2
           /\ mem[1].ts = mem[2].ts
           /\ { mem[1].dur, mem[2].dur } = {0, 1}
           /\ \E a, b \in DOMAIN rows :
                /\ rows[a].index = 2
                /\ rows[b].index = 3
                /\ rows[a].ts = rows[b].ts
                /\ rows[a].ts = mem[1].ts + 1

====
